---- MODULE Spec2Model ----
(***************************************************************************)
(* OpenCANalyzer: the trace window of src/ui_main.py (MainWindow) over the *)
(* frame store of src/can_loader.py (CANLoader).                           *)
(*                                                                         *)
(* The state is the fields of the two objects plus the two Qt objects the  *)
(* handlers talk to (the QSlider and the QTimer).  Every handler is an     *)
(* operator from a state record to a state record, translated from its     *)
(* code, so that a handler that calls another one (step_back ->            *)
(* slider.setValue -> slider_moved -> step_forward -> process_frame) is    *)
(* one atomic step, as it is on the single Qt event thread.                *)
(***************************************************************************)
EXTENDS Integers, Sequences, FiniteSets, TLC

VARIABLES
    db,              \* CANLoader.db: the loaded database, or the unloaded one
    df,              \* CANLoader.df: the recording, a sequence of frames
    columns,         \* CANLoader.df.columns: the columns the table has
    decoded_cache,   \* CANLoader.decoded_cache: index -> display string
    current_index,   \* MainWindow.current_index
    is_playing,      \* MainWindow.is_playing
    was_playing,     \* MainWindow.was_playing (an attribute created on first press)
    message_items,   \* MainWindow.message_items: the ids that have a row
    signal_items,    \* MainWindow.signal_items: the (id, signal) that have a row
    last_data,       \* MainWindow.last_data: id -> hex string
    last_signals,    \* MainWindow.last_signals: (id, signal) -> value
    byte_states,     \* MainWindow.byte_states: id -> sequence of lane states
    signal_states,   \* MainWindow.signal_states: (id, signal) -> state
    slider,          \* the QSlider: minimum, maximum, value
    timer_active,    \* the QTimer: running or not
    crashed          \* an exception left a handler (PyQt6 aborts the process)

vars == <<db, df, columns, decoded_cache, current_index, is_playing, was_playing, message_items,
          signal_items, last_data, last_signals, byte_states, signal_states,
          slider, timer_active, crashed>>

(***************************************************************************)
(* Bounds of the model.                                                    *)
(***************************************************************************)
\* Longest recording of the navigation specification (SpecNav).
MaxFrames == 3
\* Longest recording a log file of the application specification (Spec) holds.
MaxFileFrames == 2
\* Frames of a generated mock recording (count, 1000 in the program).
MockCount == 2
\* Most lines after the header of a vendor text file of SpecLoad.
MaxLines == 3

(***************************************************************************)
(* Program constants.                                                      *)
(***************************************************************************)
\* 0=Gray, 1=Red, 2=Yellow
Fresh == 0
Changed == 1
Settled == 2
\* A new QSlider has the range 0..99 and the value 0.
QSliderDefaultMaximum == 99

(***************************************************************************)
(* Python dictionaries as functions with a finite domain.                  *)
(***************************************************************************)
EmptyDict == [k \in {} |-> 0]

Has(d, k) == k \in DOMAIN d

Put(d, k, v) == [x \in (DOMAIN d) \cup {k} |-> IF x = k THEN v ELSE d[x]]

Min(a, b) == IF a <= b THEN a ELSE b

Max(a, b) == IF a >= b THEN a ELSE b

(***************************************************************************)
(* Hex strings are sequences of hex digits (0..15).                        *)
(***************************************************************************)
\* if len(data_str) % 2 != 0: data_str = "0" + data_str
PadHex(data_str) == IF Len(data_str) % 2 # 0 THEN <<0>> \o data_str ELSE data_str

\* [data_str[i:i+2] for i in range(0, len(data_str), 2)]
SplitBytes(data_str) ==
    [i \in 1..((Len(data_str) + 1) \div 2) |->
        SubSeq(data_str, 2 * i - 1, Min(2 * i, Len(data_str)))]

\* The value of one byte of bytes.fromhex(data_str).
ByteValue(b) == 16 * b[1] + b[2]

zeros(n) == [i \in 1..n |-> Fresh]

(***************************************************************************)
(* The database (cantools, an external library).  A message definition has *)
(* a length and signals; here signal k of a message is the value of byte   *)
(* k, and decode() raises when the payload is shorter than the message.    *)
(***************************************************************************)
NoDb == [loaded |-> FALSE, messages |-> EmptyDict]

M4 == [name |-> "M4", length |-> 2,
       signals |-> << [name |-> "s0", byte |-> 1], [name |-> "s1", byte |-> 2] >>]

Db1 == [loaded |-> TRUE, messages |-> [id \in {4} |-> M4]]

Databases == {Db1}

\* db.get_message_by_frame_id(can_id) raises KeyError when this is false.
HasMessage(database, can_id) == Has(database.messages, can_id)

SignalNames(msg_def) == {msg_def.signals[k].name : k \in 1..Len(msg_def.signals)}

\* msg_def.decode(data_bytes) raises when this is false.
DecodeOk(msg_def, data_bytes) == Len(data_bytes) >= msg_def.length

\* msg_def.decode(data_bytes): {name: value}
Decode(msg_def, data_bytes) ==
    [nm \in SignalNames(msg_def) |->
        LET k == CHOOSE j \in 1..Len(msg_def.signals) : msg_def.signals[j].name = nm
        IN  ByteValue(data_bytes[msg_def.signals[k].byte])]

\* decoded.items() in the order of the message's signals.
DecodedPairs(msg_def, data_bytes) ==
    [k \in 1..Len(msg_def.signals) |->
        <<msg_def.signals[k].name, ByteValue(data_bytes[msg_def.signals[k].byte])>>]

\* A result of decode_message: one of the three strings, or the mapping.
Label(text) == [label |-> text, decoded |-> <<>>]

Mapping(pairs) == [label |-> "", decoded |-> pairs]

\* The try block of decode_message: what it raises, or the mapping it decodes.
try_decode(database, can_id, data_bytes) ==
    IF ~HasMessage(database, can_id)
    THEN [raised |-> "KeyError", decoded |-> <<>>]
    ELSE IF ~DecodeOk(database.messages[can_id], data_bytes)
    THEN [raised |-> "DecodeError", decoded |-> <<>>]
    ELSE [raised |-> "", decoded |-> DecodedPairs(database.messages[can_id], data_bytes)]

\* except KeyError: "Unknown ID"; except Exception: "Decode Error".
caught(r) ==
    IF r.raised = "KeyError" THEN Label("Unknown ID")
    ELSE IF r.raised # "" THEN Label("Decode Error")
    ELSE Mapping(r.decoded)

\* Mutant: every exception is reported as "Unknown ID".
decode_message_one_label(database, can_id, data_bytes) ==
    IF ~database.loaded THEN Label("No DBC Loaded")
    ELSE IF try_decode(database, can_id, data_bytes).raised # ""
    THEN Label("Unknown ID")
    ELSE caught(try_decode(database, can_id, data_bytes))

decode_message(database, can_id, data_bytes) ==
    IF ~database.loaded THEN Label("No DBC Loaded")
    ELSE caught(try_decode(database, can_id, data_bytes))

(***************************************************************************)
(* The columns of the table.  A table built by the program has all five;   *)
(* a tabular file brings its own.                                          *)
(***************************************************************************)
AllColumns == {"Timestamp", "ID", "Data", "Channel", "DLC"}

\* The columns process_frame reads of a row with row[...].
FrameColumns == {"ID", "Timestamp", "DLC", "Data"}

(***************************************************************************)
(* The state as one record, and the step that installs a record.           *)
(***************************************************************************)
St == [db |-> db, df |-> df, columns |-> columns,
       decoded_cache |-> decoded_cache, current_index |-> current_index,
       is_playing |-> is_playing, was_playing |-> was_playing,
       message_items |-> message_items, signal_items |-> signal_items,
       last_data |-> last_data, last_signals |-> last_signals,
       byte_states |-> byte_states, signal_states |-> signal_states,
       slider |-> slider, timer_active |-> timer_active, crashed |-> crashed]

\* T is evaluated once; the variables take its fields.
Becomes(T) ==
    \E R \in {T} :
        /\ db' = R.db
        /\ df' = R.df
        /\ columns' = R.columns
        /\ decoded_cache' = R.decoded_cache
        /\ current_index' = R.current_index
        /\ is_playing' = R.is_playing
        /\ was_playing' = R.was_playing
        /\ message_items' = R.message_items
        /\ signal_items' = R.signal_items
        /\ last_data' = R.last_data
        /\ last_signals' = R.last_signals
        /\ byte_states' = R.byte_states
        /\ signal_states' = R.signal_states
        /\ slider' = R.slider
        /\ timer_active' = R.timer_active
        /\ crashed' = R.crashed

\* MainWindow.__init__ and CANLoader.__init__
Constructed ==
    [db |-> NoDb, df |-> <<>>, columns |-> AllColumns,
     decoded_cache |-> EmptyDict, current_index |-> 0,
     is_playing |-> FALSE, was_playing |-> [set |-> FALSE, value |-> FALSE],
     message_items |-> {}, signal_items |-> {},
     last_data |-> EmptyDict, last_signals |-> EmptyDict,
     byte_states |-> EmptyDict, signal_states |-> EmptyDict,
     slider |-> [minimum |-> 0, maximum |-> QSliderDefaultMaximum, value |-> 0,
                 down |-> FALSE],
     timer_active |-> FALSE, crashed |-> FALSE]

(***************************************************************************)
(* process_frame: the change colouring of one frame.                       *)
(***************************************************************************)
\* Mutant: the vector is created for a new id and never resized.
init_byte_states_no_resize(states_by_id, can_id, n_bytes) ==
    IF ~Has(states_by_id, can_id)
    THEN Put(states_by_id, can_id, zeros(n_bytes))
    ELSE states_by_id

\* Mutant: a resize keeps the states of the lanes the two lengths share.
init_byte_states_keep_prefix(states_by_id, can_id, n_bytes) ==
    IF ~Has(states_by_id, can_id)
    THEN Put(states_by_id, can_id, zeros(n_bytes))
    ELSE Put(states_by_id, can_id,
             [i \in 1..n_bytes |->
                 IF i <= Len(states_by_id[can_id]) THEN states_by_id[can_id][i] ELSE Fresh])

\* Initialize States if New; Resize state if DLC changed.
init_byte_states(states_by_id, can_id, n_bytes) ==
    LET created == IF ~Has(states_by_id, can_id)
                   THEN Put(states_by_id, can_id, zeros(n_bytes))
                   ELSE states_by_id
    IN  IF Len(created[can_id]) # n_bytes
        THEN Put(created, can_id, zeros(n_bytes))
        ELSE created

\* 1. Update or Create Message Row (and the rows of its signals).
create_message_row(S, can_id) ==
    IF can_id \in S.message_items
    THEN S
    ELSE LET has_def == S.db.loaded /\ HasMessage(S.db, can_id)
         IN  [S EXCEPT
                !.message_items = @ \cup {can_id},
                !.signal_items =
                    IF has_def
                    THEN @ \cup {<<can_id, nm>> : nm \in SignalNames(S.db.messages[can_id])}
                    ELSE @]

\* Mutant: an unchanged lane that was Changed stays Changed.
byte_lane_states_no_settle(states, current_bytes, prev_bytes) ==
    [i \in 1..Len(states) |->
        IF i > Len(current_bytes) THEN states[i]
        ELSE IF i <= Len(prev_bytes) /\ current_bytes[i] # prev_bytes[i]
        THEN Changed
        ELSE states[i]]

\* Determine Byte Colors: the loop over the lanes of the frame.
\* The list is updated in place: lanes past the frame's bytes keep their state.
byte_lane_states(states, current_bytes, prev_bytes) ==
    [i \in 1..Len(states) |->
        IF i > Len(current_bytes) THEN states[i]
        ELSE IF i <= Len(prev_bytes) /\ current_bytes[i] # prev_bytes[i]
        THEN Changed
        ELSE IF states[i] = Changed THEN Settled
             ELSE IF states[i] = Settled THEN Settled
             ELSE states[i]]

\* Mutant: a signal without a last-known value counts as changed.
signal_state_no_old_check(had_old, old_val, val, s_state) ==
    IF ~had_old \/ val # old_val
    THEN Changed
    ELSE IF s_state = Changed THEN Settled
         ELSE s_state

\* Color Logic for Signal.
signal_state(had_old, old_val, val, s_state) ==
    IF had_old /\ val # old_val
    THEN Changed
    ELSE IF s_state = Changed THEN Settled
         ELSE IF s_state = Settled THEN Settled
         ELSE s_state

\* Mutant: a failing look-up or decode is not caught and leaves the handler.
process_signals_uncaught(S, can_id, data_str) ==
    IF ~S.db.loaded THEN S
    ELSE IF ~HasMessage(S.db, can_id) THEN [S EXCEPT !.crashed = TRUE]
    ELSE LET msg_def == S.db.messages[can_id]
             data_bytes == SplitBytes(data_str)
         IN  IF ~DecodeOk(msg_def, data_bytes) THEN [S EXCEPT !.crashed = TRUE]
             ELSE LET decoded == Decode(msg_def, data_bytes)
                      keys == {<<can_id, nm>> : nm \in DOMAIN decoded} \cap S.signal_items
                      new_state(key) ==
                          signal_state(Has(S.last_signals, key),
                                       IF Has(S.last_signals, key) THEN S.last_signals[key] ELSE 0,
                                       decoded[key[2]],
                                       IF Has(S.signal_states, key) THEN S.signal_states[key] ELSE Fresh)
                  IN  [S EXCEPT
                         !.signal_states =
                             [k \in (DOMAIN S.signal_states) \cup keys |->
                                 IF k \in keys THEN new_state(k) ELSE S.signal_states[k]],
                         !.last_signals =
                             [k \in (DOMAIN S.last_signals) \cup keys |->
                                 IF k \in keys THEN decoded[k[2]] ELSE S.last_signals[k]]]

\* 2. Decode and Update Signals; any exception leaves the block silently.
process_signals(S, can_id, data_str) ==
    IF ~S.db.loaded THEN S
    ELSE IF ~HasMessage(S.db, can_id) THEN S
    ELSE LET msg_def == S.db.messages[can_id]
             data_bytes == SplitBytes(data_str)
         IN  IF ~DecodeOk(msg_def, data_bytes) THEN S
             ELSE LET decoded == Decode(msg_def, data_bytes)
                      keys == {<<can_id, nm>> : nm \in DOMAIN decoded} \cap S.signal_items
                      new_state(key) ==
                          signal_state(Has(S.last_signals, key),
                                       IF Has(S.last_signals, key) THEN S.last_signals[key] ELSE 0,
                                       decoded[key[2]],
                                       IF Has(S.signal_states, key) THEN S.signal_states[key] ELSE Fresh)
                  IN  [S EXCEPT
                         !.signal_states =
                             [k \in (DOMAIN S.signal_states) \cup keys |->
                                 IF k \in keys THEN new_state(k) ELSE S.signal_states[k]],
                         !.last_signals =
                             [k \in (DOMAIN S.last_signals) \cup keys |->
                                 IF k \in keys THEN decoded[k[2]] ELSE S.last_signals[k]]]

\* df.iloc[index] raises IndexError, row['DLC'] of a table without it KeyError.
process_frame(S, index) ==
    IF index >= Len(S.df) \/ index < 0 - Len(S.df) \/ ~(FrameColumns \subseteq S.columns)
    THEN [S EXCEPT !.crashed = TRUE]
    ELSE LET row == S.df[index + 1]
             can_id == row.ID
             data_str == PadHex(row.Data)
             current_bytes == SplitBytes(data_str)
             S1 == [S EXCEPT !.byte_states = init_byte_states(@, can_id, Len(current_bytes))]
             S2 == create_message_row(S1, can_id)
             prev_data_str == PadHex(IF Has(S.last_data, can_id) THEN S.last_data[can_id] ELSE <<>>)
             prev_bytes == SplitBytes(prev_data_str)
             S3 == [S2 EXCEPT
                      !.byte_states[can_id] = byte_lane_states(@, current_bytes, prev_bytes),
                      !.last_data = Put(@, can_id, data_str)]
         IN  CHOOSE R \in {process_signals(T, can_id, data_str) : T \in {S3}} : TRUE

(***************************************************************************)
(* The QSlider with its signals blocked, and update_ui_common.             *)
(***************************************************************************)
\* QAbstractSlider bounds a value to its range.
Bound(sl, v) == Max(sl.minimum, Min(sl.maximum, v))

update_ui_common(S) ==
    LET S1 == [S EXCEPT !.slider.value = Bound(S.slider, S.current_index)]
    IN  IF \/ S.current_index >= Len(S.df) \/ S.current_index < 0 - Len(S.df)
           \/ "Timestamp" \notin S.columns
        THEN [S1 EXCEPT !.crashed = TRUE]
        ELSE S1

(***************************************************************************)
(* Navigation.                                                             *)
(***************************************************************************)
\* Mutant: the guard lets the step run at the last index.
step_forward_past_end(S) ==
    IF Len(S.df) = 0 THEN S
    ELSE IF S.current_index <= Len(S.df) - 1
    THEN update_ui_common(
             process_frame([S EXCEPT !.current_index = @ + 1], S.current_index + 1))
    ELSE S

step_forward(S) ==
    IF Len(S.df) = 0 THEN S
    ELSE IF S.current_index < Len(S.df) - 1
    THEN update_ui_common(
             process_frame([S EXCEPT !.current_index = @ + 1], S.current_index + 1))
    ELSE S

\* Mutant: head(1), the first frame of each id, instead of tail(1).
latest_frames_head(data, val) ==
    LET m == Max(0, Min(val + 1, Len(data)))
    IN  {i \in 0..(m - 1) : \A j \in 0..(i - 1) : data[j + 1].ID # data[i + 1].ID}

\* subset.groupby('ID').tail(1) of subset = df.iloc[:val+1]: positions, 0-based.
latest_frames(data, val) ==
    LET m == Max(0, Min(val + 1, Len(data)))
    IN  {i \in 0..(m - 1) : \A j \in (i + 1)..(m - 1) : data[j + 1].ID # data[i + 1].ID}

\* latest_frames.sort_values('Timestamp'): the positions in that order.
RECURSIVE sort_by_timestamp(_, _)
sort_by_timestamp(data, idxs) ==
    IF idxs = {} THEN <<>>
    ELSE LET first == CHOOSE i \in idxs : \A j \in idxs :
                          \/ data[i + 1].Timestamp < data[j + 1].Timestamp
                          \/ data[i + 1].Timestamp = data[j + 1].Timestamp /\ i <= j
         IN  <<first>> \o sort_by_timestamp(data, idxs \ {first})

\* Reset highlights after seek: byte_states[cid] = [0] * len(byte_states[cid]).
reset_to_gray(S, cid) ==
    IF Has(S.byte_states, cid)
    THEN [S EXCEPT !.byte_states[cid] = zeros(Len(@))]
    ELSE S

\* for idx, row in latest_frames.iterrows(): process_frame, then reset to Gray.
RECURSIVE process_latest(_, _)
process_latest(S, order) ==
    IF order = <<>> \/ S.crashed THEN S
    ELSE process_latest(
             reset_to_gray(process_frame(S, Head(order)), S.df[Head(order) + 1].ID),
             Tail(order))

\* tree.clear() and the six dictionaries emptied.
clear_trace(S) ==
    [S EXCEPT !.message_items = {}, !.signal_items = {},
              !.last_data = EmptyDict, !.last_signals = EmptyDict,
              !.byte_states = EmptyDict, !.signal_states = EmptyDict]

\* A handler's last call, skipped when an exception has left the handler.
then_update_ui_common(S) ==
    IF S.crashed THEN S ELSE update_ui_common(S)

\* The body of slider_moved after the +1 shortcut: reset and rebuild.
\* groupby('ID') and sort_values('Timestamp') raise KeyError without the column.
seek_rebuild(S, val) ==
    IF {"ID", "Timestamp"} \subseteq S.columns
    THEN then_update_ui_common(
             process_latest(clear_trace([S EXCEPT !.current_index = val]),
                            sort_by_timestamp(S.df, latest_frames(S.df, val))))
    ELSE clear_trace([S EXCEPT !.current_index = val, !.crashed = TRUE])

slider_moved(S, val) ==
    IF val = S.current_index + 1
    THEN step_forward(S)
    ELSE seek_rebuild(S, val)

(***************************************************************************)
(* The QSlider with its signals live: valueChanged is connected to         *)
(* slider_moved and is emitted only when the bounded value differs.        *)
(***************************************************************************)
Slider_setValue(S, v) ==
    LET b == Bound(S.slider, v)
    IN  IF b = S.slider.value THEN S
        ELSE slider_moved([S EXCEPT !.slider.value = b], b)

Slider_setRange(S, lo, hi) ==
    LET S1 == [S EXCEPT !.slider.minimum = lo, !.slider.maximum = Max(lo, hi)]
    IN  IF S1.slider.minimum = S.slider.minimum /\ S1.slider.maximum = S.slider.maximum
        THEN S
        ELSE Slider_setValue(S1, S1.slider.value)

\* Mutant: the index is decremented and the frame there processed, no reset.
step_back_no_reset(S) ==
    IF Len(S.df) = 0 THEN S
    ELSE IF S.current_index > 0
    THEN update_ui_common(
             process_frame([S EXCEPT !.current_index = @ - 1], S.current_index - 1))
    ELSE S

step_back(S) ==
    IF Len(S.df) = 0 THEN S
    ELSE IF S.current_index > 0
    THEN Slider_setValue(S, S.current_index - 1)
    ELSE S

\* refresh_table after slider.setRange: If just loaded, start at 0; process.
refresh_show(S) ==
    IF S.crashed THEN S
    ELSE then_update_ui_common(
             process_frame(
                 [S EXCEPT !.current_index = IF @ >= Len(S.df) THEN 0 ELSE @],
                 IF S.current_index >= Len(S.df) THEN 0 ELSE S.current_index))

refresh_table(S) ==
    IF Len(S.df) = 0
    THEN clear_trace(S)
    ELSE refresh_show(Slider_setRange(clear_trace(S), 0, Len(S.df) - 1))

(***************************************************************************)
(* Playback.                                                               *)
(***************************************************************************)
toggle_playback(S) ==
    IF S.is_playing
    THEN [S EXCEPT !.timer_active = FALSE, !.is_playing = FALSE]
    ELSE [S EXCEPT !.timer_active = TRUE, !.is_playing = TRUE]

\* Mutant: a tick jumps to the next index through the reset and rebuild.
update_playback_seek(S) ==
    IF Len(S.df) = 0 THEN S
    ELSE IF S.current_index < Len(S.df) - 1
    THEN seek_rebuild(S, S.current_index + 1)
    ELSE toggle_playback(S)

\* Mutant: the tick at the last index does not stop playback.
update_playback_no_stop(S) ==
    IF Len(S.df) = 0 THEN S
    ELSE IF S.current_index < Len(S.df) - 1
    THEN CHOOSE R \in {update_ui_common(T) : T \in {
             process_frame([S EXCEPT !.current_index = @ + 1], S.current_index + 1)}} : TRUE
    ELSE S

\* The frame is processed once and update_ui_common works on the result.
update_playback(S) ==
    IF Len(S.df) = 0 THEN S
    ELSE IF S.current_index < Len(S.df) - 1
    THEN CHOOSE R \in {update_ui_common(T) : T \in {
             process_frame([S EXCEPT !.current_index = @ + 1], S.current_index + 1)}} : TRUE
    ELSE toggle_playback(S)

slider_pressed(S) ==
    LET S1 == [S EXCEPT !.was_playing = [set |-> TRUE, value |-> S.is_playing]]
    IN  IF S1.is_playing THEN toggle_playback(S1) ELSE S1

slider_released(S) ==
    IF S.was_playing.set /\ S.was_playing.value THEN toggle_playback(S) ELSE S

\* QSlider: the handle is held down from the mouse press to the release;
\* sliderPressed and sliderReleased are emitted as that changes.
Slider_setSliderDown(S, down) ==
    IF down = S.slider.down THEN S
    ELSE IF down THEN slider_pressed([S EXCEPT !.slider.down = TRUE])
    ELSE slider_released([S EXCEPT !.slider.down = FALSE])

(***************************************************************************)
(* Log files.  A file has an extension, may be unreadable, and holds the   *)
(* rows of a table (tabular), the lines after a ***BUSMASTER header        *)
(* (vendor text) or the messages python-can's reader yields (generic).     *)
(***************************************************************************)
LogFile(ext, readable, busmaster, cols, rows, lines, msgs) ==
    [ext |-> ext, readable |-> readable, busmaster |-> busmaster,
     columns |-> cols, rows |-> rows, lines |-> lines, msgs |-> msgs]

\* A row of the table.  Data is the text str() gives for the cell and dtype
\* the type pandas holds it in: "object" (a str) or "int64".
Frame(ts, id, data) ==
    [Timestamp |-> ts, ID |-> id, DLC |-> Len(SplitBytes(PadHex(data))),
     Data |-> data, Channel |-> 1, dtype |-> "object"]

\* What load_log returns (ok) and the loader it leaves (S).
Loaded(S) == [ok |-> TRUE, S |-> S]

Failed(S) == [ok |-> FALSE, S |-> S]

\* int(text, 16) of a string of hex digits.
RECURSIVE HexValue(_)
HexValue(digits) ==
    IF digits = <<>> THEN 0
    ELSE 16 * HexValue(SubSeq(digits, 1, Len(digits) - 1)) + digits[Len(digits)]

\* int(text) of a string of decimal digits.
RECURSIVE DecValue(_)
DecValue(digits) ==
    IF digits = <<>> THEN 0
    ELSE 10 * DecValue(SubSeq(digits, 1, Len(digits) - 1)) + digits[Len(digits)]

\* "".join(tokens)
RECURSIVE Join(_)
Join(tokens) ==
    IF tokens = <<>> THEN <<>> ELSE Head(tokens) \o Join(Tail(tokens))

(***************************************************************************)
(* _load_busmaster.  Times are in units of 1/10000 s.                      *)
(***************************************************************************)
\* base_time_seconds = None
NoBase == -1

TicksPerSecond == 10000

\* seconds = h * 3600 + m * 60 + s + (ms / 10000.0)
AbsTime(t) == (t[1] * 3600 + t[2] * 60 + t[3]) * TicksPerSecond + t[4]

\* rel_time = seconds - base_time_seconds; if rel_time < 0: rel_time += 24 * 3600
RelTime(seconds, base) ==
    IF seconds - base < 0
    THEN seconds - base + 24 * 3600 * TicksPerSecond
    ELSE seconds - base

\* The dictionary appended for a line: parts[2] channel, parts[3] id, parts[5]
\* dlc, parts[6:6+dlc] the data tokens.
busmaster_frame(line, rel_time) ==
    [Timestamp |-> rel_time, ID |-> HexValue(line.id), DLC |-> line.dlc,
     Data |-> Join(SubSeq(line.data, 1, Min(line.dlc, Len(line.data)))),
     Channel |-> line.channel, dtype |-> "object"]

\* Mutant: the first malformed line ends the loop.
RECURSIVE busmaster_lines_abort(_, _, _)
busmaster_lines_abort(lines, base, data_list) ==
    IF lines = <<>> \/ Head(lines).kind # "frame" THEN data_list
    ELSE busmaster_lines_abort(Tail(lines),
                               IF base = NoBase THEN AbsTime(Head(lines).time) ELSE base,
                               Append(data_list,
                                      busmaster_frame(Head(lines),
                                          RelTime(AbsTime(Head(lines).time),
                                                  IF base = NoBase
                                                  THEN AbsTime(Head(lines).time)
                                                  ELSE base))))

\* The loop over the lines.  A comment or blank line, a line of fewer than six
\* tokens and a line whose time does not parse are skipped before the base
\* time is looked at; a line whose time parses sets the base time if there is
\* none, also when a later token of the line fails to parse (kind "badfield").
RECURSIVE busmaster_lines(_, _, _)
busmaster_lines(lines, base, data_list) ==
    IF lines = <<>> THEN data_list
    ELSE IF Head(lines).kind \in {"comment", "short", "badtime"}
    THEN busmaster_lines(Tail(lines), base, data_list)
    ELSE IF Head(lines).kind = "badfield"
    THEN busmaster_lines(Tail(lines),
                         IF base = NoBase THEN AbsTime(Head(lines).time) ELSE base,
                         data_list)
    ELSE busmaster_lines(Tail(lines),
                         IF base = NoBase THEN AbsTime(Head(lines).time) ELSE base,
                         Append(data_list,
                                busmaster_frame(Head(lines),
                                    RelTime(AbsTime(Head(lines).time),
                                            IF base = NoBase
                                            THEN AbsTime(Head(lines).time)
                                            ELSE base))))

install_frames(S, data_list) ==
    IF data_list = <<>>
    THEN Failed(S)
    ELSE Loaded([S EXCEPT !.df = data_list, !.columns = AllColumns,
                          !.decoded_cache = EmptyDict])

_load_busmaster(S, file) ==
    install_frames(S, busmaster_lines(file.lines, NoBase, <<>>))

(***************************************************************************)
(* _load_can_log: python-can's reader yields the messages in file order.   *)
(***************************************************************************)
\* msg.data.hex(), and Timestamp - first_ts.
can_log_frames(msgs) ==
    [i \in 1..Len(msgs) |->
        [Timestamp |-> msgs[i].timestamp - msgs[1].timestamp,
         ID |-> msgs[i].arbitration_id, DLC |-> msgs[i].dlc,
         Data |-> Join(msgs[i].data), Channel |-> msgs[i].channel, dtype |-> "object"]]

_load_can_log(S, file) ==
    IF ~file.readable THEN Failed(S)
    ELSE install_frames(S, can_log_frames(file.msgs))

(***************************************************************************)
(* _load_csv.  pd.read_csv infers the type of a column: cells that are all *)
(* decimal digits are read as integers, so that str() of such a Data cell  *)
(* has lost its leading zeros.  The ID cells of the files here all parse   *)
(* (a 0x cell as base 16, any other as base 10).                           *)
(***************************************************************************)
IsDecimal(digits) == \A i \in 1..Len(digits) : digits[i] < 10

RECURSIVE StripZeros(_)
StripZeros(digits) ==
    IF Len(digits) > 1 /\ Head(digits) = 0 THEN StripZeros(Tail(digits)) ELSE digits

\* str(row['Data']) of row i of the table read_csv returns.
read_data(rows, i) ==
    IF \A j \in 1..Len(rows) : IsDecimal(rows[j].Data)
    THEN StripZeros(rows[i].Data)
    ELSE rows[i].Data

\* The type read_csv gives the Data column.
data_dtype(file) ==
    IF "Data" \in file.columns /\ \A j \in 1..Len(file.rows) : IsDecimal(file.rows[j].Data)
    THEN "int64"
    ELSE "object"

\* int(x, 16) if 'x' in x else int(x)
parse_id(cell) ==
    IF cell.x THEN HexValue(cell.digits) ELSE DecValue(cell.digits)

\* The table after the renaming of its columns and the clean-up of ID; a column
\* the file lacks has no cells (a blank here, which nothing reads).
csv_table(file) ==
    [i \in 1..Len(file.rows) |->
        [Timestamp |-> IF "Timestamp" \in file.columns THEN file.rows[i].Timestamp ELSE 0,
         ID |-> IF "ID" \in file.columns THEN parse_id(file.rows[i].ID) ELSE 0,
         DLC |-> IF "DLC" \in file.columns THEN file.rows[i].DLC ELSE 0,
         Data |-> IF "Data" \in file.columns THEN read_data(file.rows, i) ELSE <<>>,
         Channel |-> 1, dtype |-> data_dtype(file)]]

\* positions (0-based, ascending timestamps) -> the rows in that order
reindex(data, order) ==
    [k \in 1..Len(order) |-> data[order[k] + 1]]

\* df.sort_values('Timestamp').reset_index(drop=True)
sort_values(data) ==
    reindex(data, sort_by_timestamp(data, 0..(Len(data) - 1)))

\* self.df is assigned before the columns are used: a table without ID or
\* Timestamp raises KeyError (load_log then returns False) with self.df replaced.
_load_csv(S, file) ==
    IF ~file.readable THEN Failed(S)
    ELSE IF "ID" \notin file.columns \/ "Timestamp" \notin file.columns
    THEN Failed([S EXCEPT !.df = csv_table(file), !.columns = file.columns])
    ELSE Loaded([S EXCEPT !.df = sort_values(csv_table(file)),
                          !.columns = file.columns,
                          !.decoded_cache = EmptyDict])

(***************************************************************************)
(* load_log and the handlers that load.                                    *)
(***************************************************************************)
load_log(S, file) ==
    IF file.ext = "log" /\ ~file.readable THEN Failed(S)
    ELSE IF file.ext = "log" /\ file.busmaster THEN _load_busmaster(S, file)
    ELSE IF file.ext = "csv" THEN _load_csv(S, file)
    ELSE IF file.ext \in {"asc", "log", "blf"} THEN _load_can_log(S, file)
    ELSE Failed(S)

\* if self.loader.load_...(fname): self.refresh_table()
refresh_if_loaded(r) ==
    IF r.ok THEN refresh_table(r.S) ELSE r.S

load_log_dialog(S, file) ==
    refresh_if_loaded(load_log(S, file))

\* generate_mock_data installs the generated frames (and leaves the cache alone).
generate_mock_data(S, frames) ==
    [S EXCEPT !.df = frames, !.columns = AllColumns]

generate_mock(S, frames) ==
    refresh_table(generate_mock_data(S, frames))

\* cantools' load_file raises on a file that is no database.
load_dbc(S, file) ==
    IF file.readable THEN Loaded([S EXCEPT !.db = file.database]) ELSE Failed(S)

load_dbc_dialog(S, file) ==
    refresh_if_loaded(load_dbc(S, file))

\* The display string of a frame: "name: value, ..." of the mapping (held here
\* as the pairs it lists) or str() of the label.
decoded_string(S, index) ==
    decode_message(S.db, S.df[index + 1].ID, SplitBytes(PadHex(S.df[index + 1].Data)))

\* get_decoded_string: a cached index is answered from the cache; row['ID'] of
\* a table without the column raises and nothing is stored.
get_decoded_string(S, index) ==
    IF Has(S.decoded_cache, index) THEN S
    ELSE IF ~({"ID", "Data"} \subseteq S.columns) THEN S
    ELSE [S EXCEPT !.decoded_cache = Put(@, index, decoded_string(S, index))]

(***************************************************************************)
(* get_signal_trace: what it returns (it assigns nothing), or that it      *)
(* raised.                                                                 *)
(***************************************************************************)
\* bytes.fromhex(row['Data']) raises for a cell that is not a str and for an
\* odd number of hex digits.
fromhex_ok(row) == row.dtype = "object" /\ Len(row.Data) % 2 = 0

\* if isinstance(decoded, dict) and signal_name in decoded: the pair appended.
trace_pair(decoded, timestamp, signal_name) ==
    IF decoded.label = "" /\ \E k \in DOMAIN decoded.decoded : decoded.decoded[k][1] = signal_name
    THEN << <<timestamp,
              decoded.decoded[CHOOSE k \in DOMAIN decoded.decoded :
                                  decoded.decoded[k][1] = signal_name][2]>> >>
    ELSE <<>>

\* The body of the loop for one row of the subset; an exception (a missing
\* column, fromhex) is swallowed and the row contributes nothing.
trace_row(S, row, can_id, signal_name) ==
    IF ~({"Data", "Timestamp"} \subseteq S.columns) \/ ~fromhex_ok(row) THEN <<>>
    ELSE trace_pair(decode_message(S.db, can_id, SplitBytes(row.Data)),
                    row.Timestamp, signal_name)

\* return timestamps, values
two_lists(raised, pairs) ==
    [raised |-> raised,
     timestamps |-> [k \in 1..Len(pairs) |-> pairs[k][1]],
     values |-> [k \in 1..Len(pairs) |-> pairs[k][2]]]

\* self.df['ID'] of a table without the column raises KeyError outside the try.
get_signal_trace(S, can_id, signal_name) ==
    IF S.df = <<>> THEN two_lists(FALSE, <<>>)
    ELSE IF "ID" \notin S.columns THEN two_lists(TRUE, <<>>)
    ELSE two_lists(FALSE,
                   Join([i \in 1..Len(S.df) |->
                            IF S.df[i].ID = can_id
                            THEN trace_row(S, S.df[i], can_id, signal_name)
                            ELSE <<>>]))

(***************************************************************************)
(* Recordings.  A frame is a row of the DataFrame; timestamps ascend with  *)
(* the position, as in a file written in time order.                       *)
(***************************************************************************)
\* A tabular file, and a row of one with the id written as 0x<id>.
CsvFile(cols, rows) == LogFile("csv", TRUE, FALSE, cols, rows, <<>>, <<>>)

CsvRow(ts, id, data) ==
    [Timestamp |-> ts, ID |-> [x |-> TRUE, digits |-> <<id>>],
     DLC |-> Len(SplitBytes(PadHex(data))), Data |-> data]

RowsOf(kinds, lo, hi) ==
    UNION {{[i \in 1..n |-> CsvRow(i - 1, r[i][1], r[i][2])] : r \in [1..n -> kinds]}
              : n \in lo..hi}

\* A file with an extension load_log does not know.
UnsupportedFile == LogFile("txt", TRUE, FALSE, {}, <<>>, <<>>, <<>>)

\* A database file cantools loads, and one it does not.
DbcFiles ==
    {[readable |-> TRUE, database |-> d] : d \in Databases}
        \cup {[readable |-> FALSE, database |-> NoDb]}

\* "1", "01", "02", "0102", "0202" for id 4 (M4 decodes the two-byte ones);
\* "01", "02" for id 5 (no message definition).
NavFrameKinds ==
    {<<4, d>> : d \in {<<1>>, <<0, 1>>, <<0, 2>>, <<0, 1, 0, 2>>, <<0, 2, 0, 2>>}}
        \cup {<<5, d>> : d \in {<<0, 1>>, <<0, 2>>}}

FileFrameKinds ==
    {<<4, d>> : d \in {<<0, 1>>, <<0, 2>>, <<0, 1, 0, 2>>}} \cup {<<5, <<0, 1>>>>}

RecordingsOf(kinds, lo, hi) ==
    UNION {{[i \in 1..n |-> Frame(i - 1, r[i][1], r[i][2])] : r \in [1..n -> kinds]}
              : n \in lo..hi}

\* The recordings of SpecNav, as tabular files with the four columns.
NavRecordings == {CsvFile(FrameColumns, rows) : rows \in RowsOf(NavFrameKinds, 1, MaxFrames)}

\* One-row tabular files that lack one of the four columns.
SchemaFiles ==
    {CsvFile(FrameColumns \ {c}, <<CsvRow(0, 4, <<0, 1>>)>>) : c \in FrameColumns}

\* The files of Spec: one that fails to load, tabular files with the four
\* columns (one of them a header and no rows), and the files of SchemaFiles.
LogFiles ==
    {UnsupportedFile}
        \cup {CsvFile(FrameColumns, rows) : rows \in RowsOf(FileFrameKinds, 0, MaxFileFrames)}
        \cup SchemaFiles

\* Mock traffic: an id drawn from [0x100, 0x101, 0x200] and eight random bytes
\* as sixteen hex digits.  The draws are kept to two of the ids and to one
\* payload for each, which differ in the last byte.
MockIds == {256, 257}

MockPayloads == [id \in MockIds |-> [i \in 1..16 |-> IF i = 16 THEN id - 256 ELSE 0]]

MockFrameKinds == {<<id, MockPayloads[id]>> : id \in MockIds}

MockRecordings == RecordingsOf(MockFrameKinds, MockCount, MockCount)

(***************************************************************************)
(* Actions: one per event the window handles.                              *)
(***************************************************************************)
InitFrom(T) ==
    /\ db = T.db
    /\ df = T.df
    /\ columns = T.columns
    /\ decoded_cache = T.decoded_cache
    /\ current_index = T.current_index
    /\ is_playing = T.is_playing
    /\ was_playing = T.was_playing
    /\ message_items = T.message_items
    /\ signal_items = T.signal_items
    /\ last_data = T.last_data
    /\ last_signals = T.last_signals
    /\ byte_states = T.byte_states
    /\ signal_states = T.signal_states
    /\ slider = T.slider
    /\ timer_active = T.timer_active
    /\ crashed = T.crashed

LoadLogDialogOf(file) ==
    /\ ~crashed
    /\ Becomes(load_log_dialog(St, file))

LoadLogDialog ==
    \E file \in LogFiles : LoadLogDialogOf(file)

LoadDbcDialog ==
    /\ ~crashed
    /\ \E file \in DbcFiles : Becomes(load_dbc_dialog(St, file))

GenerateMock ==
    /\ ~crashed
    /\ \E frames \in MockRecordings : Becomes(generate_mock(St, frames))

StepForward ==
    /\ ~crashed
    /\ Becomes(step_forward(St))

StepBack ==
    /\ ~crashed
    /\ Becomes(step_back(St))

TogglePlayback ==
    /\ ~crashed
    /\ Becomes(toggle_playback(St))

\* The timer's timeout, while the timer runs.
UpdatePlayback ==
    /\ ~crashed
    /\ timer_active
    /\ Becomes(update_playback(St))

SliderPressed ==
    /\ ~crashed
    /\ ~slider.down
    /\ Becomes(Slider_setSliderDown(St, TRUE))

SliderReleased ==
    /\ ~crashed
    /\ slider.down
    /\ Becomes(Slider_setSliderDown(St, FALSE))

\* The user moves the slider to another value of its range.
SliderMovedTo(val) ==
    /\ ~crashed
    /\ val \in slider.minimum..slider.maximum
    /\ val # slider.value
    /\ Becomes(Slider_setValue(St, val))

SliderMoved ==
    \E val \in slider.minimum..slider.maximum : SliderMovedTo(val)

(***************************************************************************)
(* Spec: the application from its construction.                            *)
(***************************************************************************)
Init == InitFrom(Constructed)

Next ==
    \/ LoadLogDialog
    \/ LoadDbcDialog
    \/ GenerateMock
    \/ StepForward
    \/ StepBack
    \/ TogglePlayback
    \/ UpdatePlayback
    \/ SliderPressed
    \/ SliderReleased
    \/ SliderMoved

Spec == Init /\ [][Next]_vars

(***************************************************************************)
(* SpecNav: navigation over one recording, from the state a fresh window   *)
(* is in once a database (or none) and then a log have been loaded.        *)
(***************************************************************************)
InitNav ==
    \E file \in NavRecordings, dbc \in DbcFiles :
        InitFrom(load_log_dialog(load_dbc_dialog(Constructed, dbc), file))

NextNav ==
    \/ StepForward
    \/ StepBack
    \/ TogglePlayback
    \/ UpdatePlayback
    \/ SliderMoved

SpecNav == InitNav /\ [][NextNav]_vars

(***************************************************************************)
(* SpecTick: playback has been started, at an index of a recording (or on  *)
(* an empty one), and only the timer fires.  The QTimer fires again and    *)
(* again while it runs: weak fairness of the tick.                         *)
(***************************************************************************)
\* A tabular file with a header and no rows: it loads as an empty recording.
EmptyCsv == CsvFile(FrameColumns, <<>>)

\* The user drags the slider to k, where the recording has such an index.
start_at(S, k) ==
    IF k < Len(S.df) THEN Slider_setValue(S, k) ELSE S

InitTick ==
    \E file \in NavRecordings \cup {EmptyCsv}, dbc \in DbcFiles, k \in 0..(MaxFrames - 1) :
        InitFrom(toggle_playback(
                     start_at(load_log_dialog(load_dbc_dialog(Constructed, dbc), file), k)))

NextTick == UpdatePlayback

SpecTick == InitTick /\ [][NextTick]_vars /\ WF_vars(UpdatePlayback)

(***************************************************************************)
(* The loader on its own: the calls of CANLoader in any order, on files of *)
(* the three formats.  The window's variables keep their constructed       *)
(* values.                                                                 *)
(***************************************************************************)
\* 17:48:32:9099 and 17:48:33:4099.
BusTimes == {<<17, 48, 32, 9099>>, <<17, 48, 33, 4099>>}

\* "<time> Rx 1 0x00<id> s 2 01 02"; kind "badfield" is such a line whose id,
\* length or channel token does not parse, kind "short" a line of fewer than
\* six tokens.
BusLine(kind, time, id) ==
    [kind |-> kind, time |-> time, channel |-> 1, id |-> <<0, 0, id>>, dlc |-> 2,
     data |-> << <<0, 1>>, <<0, 2>> >>]

\* A frame of id 4 at the first time and one of id 5 at the second, and a
\* malformed line.
BusLineKinds ==
    {BusLine("frame", <<17, 48, 32, 9099>>, 4), BusLine("frame", <<17, 48, 33, 4099>>, 5),
     BusLine("badfield", <<17, 48, 32, 9099>>, 4)}

BusmasterFile(lines) == LogFile("log", TRUE, TRUE, {}, <<>>, lines, <<>>)

BusmasterFiles ==
    UNION {{BusmasterFile(lines) : lines \in [1..n -> BusLineKinds]} : n \in 0..MaxLines}

\* Messages of id 4 with the one-byte payload "01", at 5 s and at 3 s.
CanMsg(ts) ==
    [timestamp |-> ts, arbitration_id |-> 4, dlc |-> 1, data |-> << <<0, 1>> >>,
     channel |-> 1]

GenericFiles ==
    UNION {{LogFile(ext, TRUE, FALSE, {}, <<>>, <<>>, msgs)
               : msgs \in [1..n -> {CanMsg(5), CanMsg(3)}], ext \in {"asc", "log"}}
              : n \in 0..MaxFileFrames}

\* Files that cannot be opened or parsed at all.
UnreadableFiles ==
    {LogFile(ext, FALSE, FALSE, {}, <<>>, <<>>, <<>>) : ext \in {"csv", "log", "blf"}}

\* A row "1,0x4,2,0102" and a row "0,5,1,02".
LoaderCsvRows ==
    {CsvRow(1, 4, <<0, 1, 0, 2>>),
     [Timestamp |-> 0, ID |-> [x |-> FALSE, digits |-> <<5>>], DLC |-> 1, Data |-> <<0, 2>>]}

LoaderCsvFiles ==
    UNION {{CsvFile(cols, rows)
               : rows \in [1..n -> LoaderCsvRows],
                 cols \in {FrameColumns} \cup {FrameColumns \ {c} : c \in {"Timestamp", "DLC"}}}
              : n \in 0..MaxFileFrames}

LoaderFiles ==
    BusmasterFiles \cup GenericFiles \cup LoaderCsvFiles \cup UnreadableFiles
        \cup {UnsupportedFile}

LoaderLoadLogFile(file) ==
    Becomes(load_log(St, file).S)

LoaderLoadLog ==
    \E file \in LoaderFiles : LoaderLoadLogFile(file)

LoaderLoadDbcFile(file) ==
    Becomes(load_dbc(St, file).S)

LoaderLoadDbc ==
    \E file \in DbcFiles : LoaderLoadDbcFile(file)

\* The generated recordings whose frames are all alike.
LoaderMockRecordings ==
    {frames \in MockRecordings : \A i \in 1..Len(frames) : frames[i].Data = frames[1].Data
                                                            /\ frames[i].ID = frames[1].ID}

LoaderGenerateMock ==
    \E frames \in LoaderMockRecordings : Becomes(generate_mock_data(St, frames))

GetDecodedString ==
    \E index \in 0..(Len(df) - 1) : Becomes(get_decoded_string(St, index))

InitLoad == InitFrom(Constructed)

NextLoad ==
    \/ LoaderLoadLog
    \/ LoaderLoadDbc
    \/ LoaderGenerateMock
    \/ GetDecodedString

SpecLoad == InitLoad /\ [][NextLoad]_vars

(***************************************************************************)
(* The loader on vendor text files alone, with both kinds of malformed     *)
(* line.                                                                   *)
(***************************************************************************)
VendorLineKinds ==
    BusLineKinds \cup {BusLine("short", <<17, 48, 32, 9099>>, 4)}

VendorFiles ==
    UNION {{BusmasterFile(lines) : lines \in [1..n -> VendorLineKinds]} : n \in 0..MaxLines}

LoadVendorFile ==
    \E file \in VendorFiles : LoaderLoadLogFile(file)

NextVendor ==
    \/ LoadVendorFile
    \/ LoaderLoadDbc
    \/ GetDecodedString

SpecVendor == InitLoad /\ [][NextVendor]_vars

(***************************************************************************)
(* Vocabulary of the properties.                                           *)
(***************************************************************************)
\* The bytes of the frame at position idx (0-based) of a recording.
FrameBytes(data, idx) == SplitBytes(PadHex(data[idx + 1].Data))

\* The trace state and the position: what a navigation operation may change.
Core(S) ==
    [current_index |-> S.current_index,
     message_items |-> S.message_items, signal_items |-> S.signal_items,
     last_data |-> S.last_data, last_signals |-> S.last_signals,
     byte_states |-> S.byte_states, signal_states |-> S.signal_states]

\* The known ids and signals with their last-known payloads.
KnownData(S) ==
    [message_items |-> S.message_items, signal_items |-> S.signal_items,
     last_data |-> S.last_data]

\* The displayed trace state: known data and the colour classes.
Displayed(S) ==
    [known |-> KnownData(S), byte_states |-> S.byte_states,
     signal_states |-> S.signal_states]

AllFreshIn(S) ==
    /\ \A id \in DOMAIN S.byte_states :
          \A i \in 1..Len(S.byte_states[id]) : S.byte_states[id][i] = Fresh
    /\ \A key \in DOMAIN S.signal_states : S.signal_states[key] = Fresh

AllFresh == AllFreshIn(St)

SomeLaneIs(state) ==
    \E id \in DOMAIN byte_states :
        \E i \in 1..Len(byte_states[id]) : byte_states[id][i] = state

\* The ids seen at positions 0..k and the position of the latest frame of an id.
IdsUpTo(k) == {df[j + 1].ID : j \in 0..k}

LatestOf(id, k) ==
    CHOOSE j \in 0..k : df[j + 1].ID = id /\ \A m \in (j + 1)..k : df[m + 1].ID # id

\* The state a lane or a signal takes when nothing differs.
Promoted(state) == IF state \in {Changed, Settled} THEN Settled ELSE Fresh

C2_SeekAllFresh ==
    \A val \in 0..(Len(df) - 1) : AllFreshIn(slider_moved(St, val))

(***************************************************************************)
(* C3.  seek(k) called twice in a row leaves the same index, last-known    *)
(* data and colour classes after the second call as after the first.       *)
(***************************************************************************)
C3_SeekDeterminism ==
    \A k \in 0..(Len(df) - 1) :
        Core(slider_moved(slider_moved(St, k), k)) = Core(slider_moved(St, k))

(***************************************************************************)
(* C4.  Byte three-state rule: processing a frame makes a lane Changed     *)
(* when its byte differs from the same lane of the id's last-known         *)
(* payload; otherwise the lane is Fresh on the first observation of the    *)
(* id, and, when the state vector is not reset for a new length, Settled   *)
(* if it was Changed or Settled and Fresh if it was Fresh.                 *)
(***************************************************************************)
ByteRuleAt(S, idx) ==
    LET T == process_frame(S, idx)
        id == S.df[idx + 1].ID
        cur == FrameBytes(S.df, idx)
        seen == Has(S.last_data, id)
        prev == IF seen THEN SplitBytes(S.last_data[id]) ELSE <<>>
    IN  /\ Len(T.byte_states[id]) = Len(cur)
        /\ \A i \in 1..Len(cur) :
              IF i <= Len(prev) /\ cur[i] # prev[i]
              THEN T.byte_states[id][i] = Changed
              ELSE IF ~seen
              THEN T.byte_states[id][i] = Fresh
              ELSE \/ Len(S.byte_states[id]) # Len(cur)
                   \/ T.byte_states[id][i] = Promoted(S.byte_states[id][i])

C4_ByteThreeStateRule ==
    \A idx \in 0..(Len(df) - 1) : ByteRuleAt(St, idx)

\* Byte 0 of one id was v, w, w (w # v) at three consecutive frames and is Settled.
C4_FreshChangedSettled ==
    /\ Len(df) = 3
    /\ current_index = 2
    /\ \A j \in 1..3 : df[j].ID = 4
    /\ FrameBytes(df, 0)[1] # FrameBytes(df, 1)[1]
    /\ FrameBytes(df, 1)[1] = FrameBytes(df, 2)[1]
    /\ byte_states[4][1] = Settled

(***************************************************************************)
(* C5.  Signal three-state rule: with a database loaded and the frame      *)
(* decoded, every signal of the decoded mapping is Changed when its value  *)
(* differs from the last-known value, otherwise Settled if it was Changed  *)
(* or Settled and Fresh otherwise; the last-known value becomes the new    *)
(* value.                                                                  *)
(***************************************************************************)
SignalRuleAt(S, idx) ==
    LET T == process_frame(S, idx)
        id == S.df[idx + 1].ID
        cur == FrameBytes(S.df, idx)
    IN  (S.db.loaded /\ HasMessage(S.db, id) /\ DecodeOk(S.db.messages[id], cur)) =>
            \A nm \in DOMAIN Decode(S.db.messages[id], cur) :
                LET key == <<id, nm>>
                    val == Decode(S.db.messages[id], cur)[nm]
                    old == IF Has(S.signal_states, key) THEN S.signal_states[key] ELSE Fresh
                IN  /\ Has(T.last_signals, key) /\ T.last_signals[key] = val
                    /\ Has(T.signal_states, key)
                    /\ T.signal_states[key] =
                           IF Has(S.last_signals, key) /\ S.last_signals[key] # val
                           THEN Changed
                           ELSE Promoted(old)

C5_SignalThreeStateRule ==
    \A idx \in 0..(Len(df) - 1) : SignalRuleAt(St, idx)

\* With the database loaded, a signal changed to the value 2 and then kept it:
\* it is Settled after three frames.
C5_SignalChangedAndSettled ==
    /\ db.loaded
    /\ current_index = 2
    /\ Has(signal_states, <<4, "s0">>) /\ signal_states[<<4, "s0">>] = Settled
    /\ Has(last_signals, <<4, "s0">>) /\ last_signals[<<4, "s0">>] = 2

(***************************************************************************)
(* C6.  An id has a ByteState vector exactly when it has a last-seen       *)
(* payload, and the vector is as long as that payload has bytes.           *)
(***************************************************************************)
C6_ByteStateLength ==
    /\ DOMAIN byte_states = DOMAIN last_data
    /\ \A id \in DOMAIN byte_states :
          2 * Len(byte_states[id]) = Len(last_data[id])

\* A step took id 4 from a one-byte payload to a two-byte payload.
C6_LengthChangedByStep ==
    /\ Len(df) = 2
    /\ current_index = 1
    /\ df[1].ID = 4 /\ df[2].ID = 4
    /\ Len(FrameBytes(df, 0)) = 1
    /\ Len(FrameBytes(df, 1)) = 2
    /\ Has(byte_states, 4) /\ Len(byte_states[4]) = 2

(***************************************************************************)
(* C7.  Processing a frame of a known id whose payload length differs from *)
(* the stored vector's does not fail and resets the vector to all-Fresh at *)
(* the new length before the lanes are compared: each lane ends Changed    *)
(* if its byte differs from the last-known payload's and Fresh otherwise,  *)
(* never Settled.                                                          *)
(***************************************************************************)
LengthResetAt(S, idx) ==
    LET T == process_frame(S, idx)
        id == S.df[idx + 1].ID
        cur == FrameBytes(S.df, idx)
        prev == IF Has(S.last_data, id) THEN SplitBytes(S.last_data[id]) ELSE <<>>
    IN  (Has(S.byte_states, id) /\ Len(S.byte_states[id]) # Len(cur)) =>
            /\ ~T.crashed
            /\ Len(T.byte_states[id]) = Len(cur)
            /\ \A i \in 1..Len(cur) :
                  /\ T.byte_states[id][i] # Settled
                  /\ T.byte_states[id][i] =
                         IF i <= Len(prev) /\ cur[i] # prev[i] THEN Changed ELSE Fresh

C7_LengthChangeResets ==
    \A idx \in 0..(Len(df) - 1) : LengthResetAt(St, idx)

\* Id 4 had byte 0 Changed at index 1; the frame at index 2 is one byte longer
\* and keeps byte 0: the lane is Fresh again, not Settled.
C7_ResetAfterChange ==
    /\ Len(df) = 3
    /\ current_index = 2
    /\ \A j \in 1..3 : df[j].ID = 4
    /\ Len(FrameBytes(df, 0)) = 1 /\ Len(FrameBytes(df, 1)) = 1
    /\ Len(FrameBytes(df, 2)) = 2
    /\ FrameBytes(df, 0)[1] # FrameBytes(df, 1)[1]
    /\ FrameBytes(df, 1)[1] = FrameBytes(df, 2)[1]
    /\ Has(byte_states, 4) /\ byte_states[4] = <<Fresh, Fresh>>
    /\ ~crashed

(***************************************************************************)
(* C8.  step_forward below the last index moves the index by one and       *)
(* processes exactly the frame it arrives at: that frame's id gets the     *)
(* frame's payload, every other id keeps its payload and its lane states;  *)
(* at the last index it changes nothing.                                   *)
(***************************************************************************)
StepForwardEffect ==
    IF Len(df) > 0 /\ current_index < Len(df) - 1
    THEN LET id == df[current_index + 2].ID
         IN  /\ current_index' = current_index + 1
             /\ Core(St)' = Core(process_frame([St EXCEPT !.current_index = @ + 1],
                                               current_index + 1))
             /\ message_items' = message_items \cup {id}
             /\ last_data'[id] = PadHex(df[current_index + 2].Data)
             /\ \A other \in (DOMAIN last_data) \ {id} :
                   /\ last_data'[other] = last_data[other]
                   /\ byte_states'[other] = byte_states[other]
             /\ ~crashed'
    ELSE UNCHANGED vars

C8_StepForward == [][StepForward => StepForwardEffect]_vars

\* A forward step arrived at the last index of three with a lane Changed.
C8_SteppedToLast ==
    /\ Len(df) = 3
    /\ current_index = 2
    /\ SomeLaneIs(Changed)
    /\ slider.value = 2

(***************************************************************************)
(* C9.  step_back from an index c > 0 is seek(c - 1): the trace state is   *)
(* reset and rebuilt from the latest frame of each id in [0, c - 1], so    *)
(* every lane and signal is Fresh; at index 0 it changes nothing.          *)
(***************************************************************************)
StepBackEffect ==
    IF Len(df) > 0 /\ current_index > 0
    THEN /\ current_index' = current_index - 1
         /\ Core(St)' = Core(slider_moved(St, current_index - 1))
         /\ AllFresh'
         /\ message_items' = IdsUpTo(current_index - 1)
         /\ DOMAIN last_data' = IdsUpTo(current_index - 1)
         /\ \A id \in IdsUpTo(current_index - 1) :
               last_data'[id] = PadHex(df[LatestOf(id, current_index - 1) + 1].Data)
         /\ ~crashed'
    ELSE UNCHANGED vars

C9_StepBackIsSeek == [][StepBack => StepBackEffect]_vars

\* Index 1 of three frames of one id, with byte 0 different from frame 0's and
\* yet Fresh: the state a step back (a seek) leaves, not the one stepping left.
C9_BackShowsFresh ==
    /\ Len(df) = 3
    /\ current_index = 1
    /\ \A j \in 1..3 : df[j].ID = 4
    /\ FrameBytes(df, 0)[1] # FrameBytes(df, 1)[1]
    /\ AllFresh
    /\ last_data[4] = PadHex(df[2].Data)

(***************************************************************************)
(* C10.  A playback tick below the last index has the effect of            *)
(* step_forward on the index and the trace state, and no tick resets the   *)
(* trace state: every known id stays known and every id but the processed  *)
(* one keeps its lane states.                                              *)
(***************************************************************************)
TickEffect ==
    /\ (current_index < Len(df) - 1) => Core(St)' = Core(step_forward(St))
    /\ (current_index >= Len(df) - 1) => Core(St)' = Core(St)
    /\ message_items \subseteq message_items'
    /\ \A id \in DOMAIN byte_states :
          \/ current_index < Len(df) - 1 /\ id = df[current_index + 2].ID
          \/ byte_states'[id] = byte_states[id]

C10_TickIsStepForward == [][(UpdatePlayback /\ Len(df) > 0) => TickEffect]_vars

\* Playback is running past index 0 and a lane is Settled.
C10_PlayingWithSettled ==
    /\ is_playing /\ timer_active
    /\ current_index = 2
    /\ SomeLaneIs(Settled)

(***************************************************************************)
(* C11.  Original: whenever playback has been started and only timer ticks *)
(* occur, playback eventually stops (is_playing false, timer stopped) with *)
(* the current index at the last index of the recording, and no tick       *)
(* advances the index after that.                                          *)
(***************************************************************************)
StoppedAtLast ==
    ~is_playing /\ ~timer_active /\ current_index = Len(df) - 1

C11_PlaybackTerminates ==
    /\ <>StoppedAtLast
    /\ [][~is_playing => current_index' = current_index]_vars

\* C11 as amended: playback started on a recording that is not empty eventually
\* stops with the current index at the last index, and no tick advances the
\* index once it has stopped (on an empty recording a tick does nothing and
\* playback never stops).
C11_PlaybackTerminatesNonEmpty ==
    /\ (Len(df) > 0) ~> StoppedAtLast
    /\ [][~is_playing => current_index' = current_index]_vars

\* Ticks played a recording of three frames to its end and playback stopped.
C11_PlayedToEnd ==
    /\ Len(df) = 3
    /\ StoppedAtLast
    /\ SomeLaneIs(Settled)

(***************************************************************************)
(* C12.  With an empty recording every navigation operation (step_forward, *)
(* step_back, a seek with any slider value, a playback tick) completes     *)
(* without an error and leaves the current index and the trace state       *)
(* unchanged.                                                              *)
(***************************************************************************)
C12_EmptyNavigationNoOp ==
    [][(Len(df) = 0 /\ (StepForward \/ StepBack \/ SliderMoved \/ UpdatePlayback))
          => (~crashed' /\ Core(St)' = Core(St))]_vars

(***************************************************************************)
(* C13.  A step or a seek whose target index lies outside [0, count) is a  *)
(* no-op: it raises no error, the trace state and the index are unchanged, *)
(* and the index of a recording that has frames is still one of its        *)
(* indices.                                                                *)
(***************************************************************************)
InRange(k) == k \in 0..(Len(df) - 1)

OutOfRangeNavigation ==
    \/ StepForward /\ ~InRange(current_index + 1)
    \/ StepBack /\ ~InRange(current_index - 1)
    \/ \E val \in slider.minimum..slider.maximum : ~InRange(val) /\ SliderMovedTo(val)

C13_OutOfRangeNoOp ==
    [][OutOfRangeNavigation
          => /\ ~crashed'
             /\ Core(St)' = Core(St)
             /\ (Len(df) > 0 => InRange(current_index)')]_vars

(***************************************************************************)
(* C14.  A load_log that returns failure, for any format and any reason,   *)
(* leaves the recording and the decode cache exactly as they were before   *)
(* the call.                                                               *)
(***************************************************************************)
C14_FailedLoadKeepsRecording ==
    [][\A file \in LoaderFiles :
          (LoaderLoadLogFile(file) /\ ~load_log(St, file).ok)
              => UNCHANGED <<df, columns, decoded_cache>>]_vars

(***************************************************************************)
(* C15.  The decode cache belongs to the recording and the database in     *)
(* force: a successful load_log, a successful load_dbc and                 *)
(* generate_mock_data each leave it empty, and get_decoded_string never    *)
(* overwrites an entry.                                                    *)
(***************************************************************************)
ReplacesRecordingOrDatabase ==
    \/ \E file \in LoaderFiles : load_log(St, file).ok /\ LoaderLoadLogFile(file)
    \/ \E file \in DbcFiles : load_dbc(St, file).ok /\ LoaderLoadDbcFile(file)
    \/ LoaderGenerateMock

KeepsEntries ==
    \A i \in DOMAIN decoded_cache :
        Has(decoded_cache', i) /\ decoded_cache'[i] = decoded_cache[i]

C15_CacheCleared ==
    [][/\ ReplacesRecordingOrDatabase => decoded_cache' = EmptyDict
       /\ GetDecodedString => KeepsEntries]_vars

(***************************************************************************)
(* C16.  No parser reports success with zero frames: after a load_log that *)
(* returns success the recording has at least one frame.                   *)
(***************************************************************************)
C16_SuccessHasFrames ==
    [][\A file \in LoaderFiles :
          (LoaderLoadLogFile(file) /\ load_log(St, file).ok) => Len(df') > 0]_vars

(***************************************************************************)
(* C17.  After every successful load, by any of the three parsers, the     *)
(* recording is in ascending order of timestamp.                           *)
(***************************************************************************)
Sorted(data) ==
    \A i \in 1..(Len(data) - 1) : data[i].Timestamp <= data[i + 1].Timestamp

C17_LoadedSorted ==
    [][\A file \in LoaderFiles :
          (LoaderLoadLogFile(file) /\ load_log(St, file).ok) => Sorted(df')]_vars

(***************************************************************************)
(* C18.  decode_message gives a value for every input and never raises:    *)
(* "No DBC Loaded" when no database is loaded, "Unknown ID" when the       *)
(* database has no message for the id, "Decode Error" when it has one but  *)
(* the payload does not decode, and the mapping of signal names to values  *)
(* otherwise.  Every cached display string is one of these.                *)
(***************************************************************************)
DecodeIds == {4, 5}

DecodePayloads == {<<>>, <<0, 1>>, <<0, 1, 0, 2>>, <<0, 2, 0, 2, 0, 3>>}

DecodeOutcome(can_id, data_bytes) ==
    IF ~db.loaded THEN Label("No DBC Loaded")
    ELSE IF ~HasMessage(db, can_id) THEN Label("Unknown ID")
    ELSE IF ~DecodeOk(db.messages[can_id], data_bytes) THEN Label("Decode Error")
    ELSE Mapping(DecodedPairs(db.messages[can_id], data_bytes))

C18_DecodeOutcomes ==
    /\ \A can_id \in DecodeIds, data_str \in DecodePayloads :
          decode_message(db, can_id, SplitBytes(data_str))
              = DecodeOutcome(can_id, SplitBytes(data_str))
    /\ \A i \in DOMAIN decoded_cache :
          \/ decoded_cache[i].label \in {"No DBC Loaded", "Unknown ID", "Decode Error"}
          \/ /\ decoded_cache[i].label = ""
             /\ \A k \in DOMAIN decoded_cache[i].decoded :
                   decoded_cache[i].decoded[k][1] \in SignalNames(M4)

\* With a database loaded, the display strings of a frame of the recording
\* whose id has no message and of a frame whose payload decodes are cached.
CachedFor(i) ==
    /\ i \in DOMAIN decoded_cache
    /\ decoded_cache[i] = decoded_string(St, i)

C18_UnknownAndMappingCached ==
    /\ db.loaded
    /\ {"ID", "Data"} \subseteq columns
    /\ \E i \in 0..(Len(df) - 1) : CachedFor(i) /\ decoded_cache[i] = Label("Unknown ID")
    /\ \E i \in 0..(Len(df) - 1) :
          CachedFor(i) /\ decoded_cache[i].label = "" /\ Len(decoded_cache[i].decoded) = 2

(***************************************************************************)
(* C19.  The tabular parser checks the schema: a file that lacks one of    *)
(* Timestamp, ID, DLC, Data fails to load, so that after a successful load *)
(* of a tabular file the processing of its frames does not fail.           *)
(***************************************************************************)
C19_SchemaChecked ==
    [][\A file \in LogFiles :
          (file.ext = "csv" /\ LoadLogDialogOf(file))
              => /\ ~(FrameColumns \subseteq file.columns) => ~load_log(St, file).ok
                 /\ load_log(St, file).ok => ~crashed']_vars

(***************************************************************************)
(* C20.  The vendor text parser takes the first frame's time as the zero   *)
(* reference: the first frame has timestamp 0 and every frame has its      *)
(* line's time minus the first frame's line's time, plus 24 h when that is *)
(* negative.                                                               *)
(***************************************************************************)
IsFrameLine(line) == line.kind = "frame"

FrameLines(file) == SelectSeq(file.lines, IsFrameLine)

ZeroReferenced(data, lines) ==
    /\ data[1].Timestamp = 0
    /\ \A i \in 1..Len(data) :
          data[i].Timestamp = RelTime(AbsTime(lines[i].time), AbsTime(lines[1].time))

C20_ZeroReference ==
    [][\A file \in BusmasterFiles :
          (LoaderLoadLogFile(file) /\ load_log(St, file).ok)
              => ZeroReferenced(df', FrameLines(file))]_vars

(***************************************************************************)
(* C21.  The vendor text parser skips a malformed line (fewer than six     *)
(* tokens, or a token that does not parse as a number) on its own: the     *)
(* recording has exactly one frame per well-formed line, in file order,    *)
(* and the load fails only when no line is well-formed, leaving the loader *)
(* as it was.                                                              *)
(***************************************************************************)
FrameOfLine(frame, line) ==
    /\ frame.ID = HexValue(line.id)
    /\ frame.DLC = line.dlc
    /\ frame.Data = Join(line.data)
    /\ frame.Channel = line.channel

OneFramePerLine(S, r, lines) ==
    /\ r.ok <=> lines # <<>>
    /\ ~r.ok => r.S = S
    /\ r.ok => /\ Len(r.S.df) = Len(lines)
               /\ \A i \in 1..Len(lines) : FrameOfLine(r.S.df[i], lines[i])

C21_MalformedLinesSkipped ==
    \A file \in VendorFiles :
        \A r \in {load_log(St, file)} : OneFramePerLine(St, r, FrameLines(file))

\* The recording holds the one frame of a file that has malformed lines too,
\* one of them before the frame.
C21_LoadedPastMalformed ==
    /\ Len(df) = 1
    /\ df[1].Timestamp # 0
    /\ \E file \in VendorFiles :
          /\ Len(file.lines) = 3
          /\ Len(FrameLines(file)) = 1
          /\ \E i \in 1..3 : file.lines[i].kind = "short"
          /\ df = load_log(Constructed, file).S.df

(***************************************************************************)
(* C22.  get_signal_trace(id, signal) returns two sequences of equal       *)
(* length that hold, in recording order, exactly the timestamp and the     *)
(* value of each frame of that id whose decode succeeds and contains the   *)
(* signal (so both are empty for an empty recording, an id that does not   *)
(* occur and without a database), and it raises nothing.                   *)
(***************************************************************************)
TraceIds == {4, 5}

TraceSignals == {"s0", "s1", "s9"}

\* The pair of frame i (from 1) for the signal, by the decode of its payload.
SeriesPair(i, can_id, signal_name) ==
    IF df[i].ID = can_id
    THEN trace_pair(decoded_string(St, i - 1), df[i].Timestamp, signal_name)
    ELSE <<>>

Series(can_id, signal_name) ==
    Join([i \in 1..Len(df) |-> SeriesPair(i, can_id, signal_name)])

C22_SignalSeries ==
    \A can_id \in TraceIds, signal_name \in TraceSignals :
        get_signal_trace(St, can_id, signal_name) = two_lists(FALSE, Series(can_id, signal_name))

(***************************************************************************)
(* C23.  After a successful load of a log and the refresh that follows it, *)
(* the current index is 0 and the trace state is the result of processing  *)
(* frame 0 from an empty context, whatever the index was before the load.  *)
(***************************************************************************)
FirstFrameShown(S) ==
    Core(process_frame(clear_trace([S EXCEPT !.current_index = 0]), 0))

LoadsFrames(file) ==
    /\ load_log(St, file).ok
    /\ file.rows # <<>>
    /\ FrameColumns \subseteq file.columns

C23_LoadShowsFirstFrame ==
    [][\A file \in LogFiles :
          (LoadsFrames(file) /\ LoadLogDialogOf(file))
              => Core(St)' = FirstFrameShown(St)']_vars

(***************************************************************************)
(* C24.  A decode problem never fails the processing of a frame: with a    *)
(* database loaded and a frame whose id is unknown or whose payload does   *)
(* not decode, process_frame completes, the byte states and the last-known *)
(* payload are updated as for any frame, and every signal state and        *)
(* last-known signal value is left as it was.                              *)
(***************************************************************************)
DecodeFails(S, idx) ==
    /\ S.db.loaded
    /\ \/ ~HasMessage(S.db, S.df[idx + 1].ID)
       \/ ~DecodeOk(S.db.messages[S.df[idx + 1].ID], FrameBytes(S.df, idx))

Degraded(S, T, idx) ==
    /\ ~T.crashed
    /\ T.signal_states = S.signal_states
    /\ T.last_signals = S.last_signals
    /\ Has(T.last_data, S.df[idx + 1].ID)
    /\ T.last_data[S.df[idx + 1].ID] = PadHex(S.df[idx + 1].Data)
    /\ T.byte_states = process_frame([S EXCEPT !.db = NoDb], idx).byte_states

C24_DecodeProblemNotFatal ==
    \A idx \in 0..(Len(df) - 1) :
        DecodeFails(St, idx) => Degraded(St, process_frame(St, idx), idx)

\* A step has just processed a frame of a defined id whose payload is too
\* short to decode: a byte lane is Changed, and the signal values of an earlier
\* frame are still the last-known ones.
C24_SteppedOntoShortPayload ==
    /\ ~crashed
    /\ current_index = 2
    /\ DecodeFails(St, 2)
    /\ HasMessage(db, df[3].ID)
    /\ SomeLaneIs(Changed)
    /\ Has(last_signals, <<4, "s0">>)
    /\ last_data[4] = PadHex(df[3].Data)

(***************************************************************************)
(* C25.  In every state reached by loads (log, database, mock data),       *)
(* steps, seeks and ticks on a recording that is not empty, with current   *)
(* index k, the known ids are exactly the ids at the indices 0..k, and the *)
(* last-known payload of each is the payload of its latest frame at an     *)
(* index <= k.                                                             *)
(***************************************************************************)
KnownUpTo(k) ==
    /\ message_items = IdsUpTo(k)
    /\ DOMAIN last_data = IdsUpTo(k)
    /\ \A id \in IdsUpTo(k) : last_data[id] = PadHex(df[LatestOf(id, k) + 1].Data)

C25_KnownIdsUpToIndex ==
    (Len(df) > 0 /\ ~crashed /\ InRange(current_index) /\ FrameColumns \subseteq columns)
        => KnownUpTo(current_index)

(***************************************************************************)
(* C26.  Whenever the recording is not empty, after every operation the    *)
(* current index is one of its indices, 0 <= current_index < count.        *)
(***************************************************************************)
C26_IndexInRange ==
    Len(df) > 0 => InRange(current_index)

(***************************************************************************)
(* C27.  A slider press and the release that follows it restore the        *)
(* playback state: while the handle is held playback is paused (is_playing *)
(* false, timer stopped, so no tick advances the index), and after the     *)
(* release is_playing has the value it had just before the press, whatever *)
(* toggles, ticks and slider moves happen in between.                      *)
(***************************************************************************)
C27_PressReleaseRestores ==
    [][/\ slider.down' => (~is_playing' /\ ~timer_active')
       /\ SliderReleased => is_playing' = was_playing.value]_vars

====
